---- MODULE Spec2Model ----
(***************************************************************************)
(* Model of src/discord/math-images.ts: the delimiter scanner             *)
(* (findNextOpening, findClosingIndex), the tokenizer (tokenizeMathText)  *)
(* and the segment builder (buildDiscordMathSegments) of the Discord math *)
(* image feature.                                                          *)
(*                                                                         *)
(* A text is a sequence of one-character strings; offsets are 0-based as  *)
(* in the source, so text[i + 1] is the character at offset i.            *)
(***************************************************************************)
EXTENDS Integers, Sequences, FiniteSets, TLC

VARIABLES
  text,         \* the input text of the call
  config,       \* the resolved configuration (line 300)
  codeSpans,    \* offsets the code-span index of the text reports as inside code
  pc,           \* position of the call: start, tokenize, tokenized, build, await, done
  cursor,       \* tokenizeMathText: cursor
  tokens,       \* tokenizeMathText: tokens
  tokIdx,       \* buildDiscordMathSegments: index (1-based) of the token the for loop is at
  segments,     \* buildDiscordMathSegments: segments
  imageCount,   \* buildDiscordMathSegments: imageCount
  renderCalls,  \* the renderer's calls, in the order they were issued, each with its status
  logged,       \* number of logVerbose reports
  outcome       \* the promise of the call: pending, resolved (with result) or rejected

vars == <<text, config, codeSpans, pc, cursor, tokens, tokIdx, segments,
          imageCount, renderCalls, logged, outcome>>

----------------------------------------------------------------------------
(* Bounds of the model *)

\* longest input, counted in pieces (a marker or a single character)
MaxPieces == 4
\* largest maxExpressionsPerReply given explicitly
MaxK == 1
\* largest maxCharsPerExpression given explicitly
MaxCharsLimit == 1

----------------------------------------------------------------------------
(* Program constants *)

DEFAULT_DELIMITERS == {"double-dollar", "bracket"}
DEFAULT_MAX_EXPRESSIONS == 8
DEFAULT_MAX_CHARS == 1200
DEFAULT_MAX_IMAGE_WIDTH_PX == 2048
MATH_IMAGE_NAME_PREFIX == "equation"

DELIMITER_SPECS ==
  << [kind |-> "double-dollar", open |-> <<"$", "$">>, close |-> <<"$", "$">>],
     [kind |-> "bracket", open |-> <<"\\", "[">>, close |-> <<"\\", "]">>] >>

----------------------------------------------------------------------------
(* Strings *)

Min(S) == CHOOSE x \in S : \A y \in S : x <= y

\* String.prototype.slice(from, to) for 0 <= from, to
Slice(s, from, to) == SubSeq(s, from + 1, IF to > Len(s) THEN Len(s) ELSE to)

\* String.prototype.slice(from)
SliceFrom(s, from) == SubSeq(s, from + 1, Len(s))

\* pattern occurs in s at offset i
MatchAt(s, pattern, i) ==
  /\ i >= 0
  /\ i + Len(pattern) <= Len(s)
  /\ \A k \in 1..Len(pattern) : s[i + k] = pattern[k]

\* String.prototype.indexOf(pattern, from): least offset >= from, or -1
IndexOf(s, pattern, from) ==
  LET hits == {i \in from..(Len(s) - Len(pattern)) : MatchAt(s, pattern, i)}
  IN IF hits = {} THEN -1 ELSE Min(hits)

----------------------------------------------------------------------------
(* Configuration *)

\* An optional field of the configuration input is a set with at most one
\* element: {} when the field is missing (config?.field is undefined).
Missing == {}
Given(v) == {v}
IsGiven(field) == field # {}
ValueOf(field) == CHOOSE v \in field : TRUE

\* config?.field ?? fallback
OrElse(field, fallback) == IF IsGiven(field) THEN ValueOf(field) ELSE fallback

\* values are integers here, so Number.isFinite holds and Math.floor is the identity
normalizePositiveInt(field, fallback) ==
  IF ~IsGiven(field) THEN fallback
  ELSE LET rounded == ValueOf(field)
       IN IF rounded > 0 THEN rounded ELSE fallback

resolveDiscordMathImageConfig(input) ==
  LET delimiters == OrElse(input.delimiters, {}) \cap {"double-dollar", "bracket"}
      normalizedDelimiters == IF Cardinality(delimiters) > 0 THEN delimiters
                              ELSE DEFAULT_DELIMITERS
  IN [ enabled |-> OrElse(input.enabled, TRUE),
       delimiters |-> normalizedDelimiters,
       excludeCode |-> OrElse(input.excludeCode, TRUE),
       maxExpressionsPerReply |->
         normalizePositiveInt(input.maxExpressionsPerReply, DEFAULT_MAX_EXPRESSIONS),
       maxCharsPerExpression |->
         normalizePositiveInt(input.maxCharsPerExpression, DEFAULT_MAX_CHARS),
       maxImageWidthPx |-> DEFAULT_MAX_IMAGE_WIDTH_PX ]

----------------------------------------------------------------------------
(* Delimiter scanner *)

\* the isInsideCode argument: undefined, or the predicate of the code-span index
NoCodeIndex == [defined |-> FALSE, spans |-> {}]
CodeIndex(spans) == [defined |-> TRUE, spans |-> spans]

\* !isInsideCode || !isInsideCode(index)
OutsideCode(isInsideCode, index) ==
  ~isInsideCode.defined \/ index \notin isInsideCode.spans

\* the while loop of findNextOpening for one delimiter: the first occurrence of
\* the open marker at or after searchFrom that is outside code, or -1
RECURSIVE ScanOpening(_, _, _, _)
ScanOpening(t, searchFrom, delimiter, isInsideCode) ==
  IF ~(searchFrom < Len(t)) THEN -1
  ELSE LET index == IndexOf(t, delimiter.open, searchFrom)
       IN IF index < 0 THEN -1
          ELSE IF OutsideCode(isInsideCode, index) THEN index
          ELSE ScanOpening(t, index + 1, delimiter, isInsideCode)

\* the undefined result of findNextOpening
None == [index |-> -1]
IsNone(opening) == opening.index < 0

\* findNextOpening keeping the first delimiter that has an occurrence, whatever its offset
RECURSIVE FindNextOpeningFirstFound(_, _, _, _, _)
FindNextOpeningFirstFound(t, fromIndex, delimiters, isInsideCode, best) ==
  IF delimiters = <<>> THEN best
  ELSE LET delimiter == Head(delimiters)
           index == ScanOpening(t, fromIndex, delimiter, isInsideCode)
           next == IF index >= 0 /\ IsNone(best)
                   THEN [index |-> index, delimiter |-> delimiter]
                   ELSE best
       IN FindNextOpeningFirstFound(t, fromIndex, Tail(delimiters), isInsideCode, next)

\* the for loop of findNextOpening over the delimiters, carrying best
RECURSIVE FindNextOpeningLoop(_, _, _, _, _)
FindNextOpeningLoop(t, fromIndex, delimiters, isInsideCode, best) ==
  IF delimiters = <<>> THEN best
  ELSE LET delimiter == Head(delimiters)
           index == ScanOpening(t, fromIndex, delimiter, isInsideCode)
           next == IF index >= 0 /\ (IsNone(best) \/ index < best.index)
                   THEN [index |-> index, delimiter |-> delimiter]
                   ELSE best
       IN FindNextOpeningLoop(t, fromIndex, Tail(delimiters), isInsideCode, next)

findNextOpening(t, fromIndex, delimiters, isInsideCode) ==
  FindNextOpeningLoop(t, fromIndex, delimiters, isInsideCode, None)

\* findClosingIndex as a single indexOf, blind to code spans
findClosingIndexAnywhere(t, fromIndex, delimiter, isInsideCode) ==
  IF ~(fromIndex < Len(t)) THEN -1 ELSE IndexOf(t, delimiter.close, fromIndex)

RECURSIVE findClosingIndex(_, _, _, _)
findClosingIndex(t, fromIndex, delimiter, isInsideCode) ==
  IF ~(fromIndex < Len(t)) THEN -1
  ELSE LET index == IndexOf(t, delimiter.close, fromIndex)
       IN IF index < 0 THEN -1
          ELSE IF OutsideCode(isInsideCode, index) THEN index
          ELSE findClosingIndex(t, index + 1, delimiter, isInsideCode)

----------------------------------------------------------------------------
(* Tokenizer *)

TextToken(t) == [kind |-> "text", text |-> t]
FormulaToken(raw, expression) == [kind |-> "formula", raw |-> raw, expression |-> expression]

appendTextToken(toks, t) ==
  IF Len(t) = 0 THEN toks
  ELSE IF Len(toks) > 0 /\ toks[Len(toks)].kind = "text"
       THEN [toks EXCEPT ![Len(toks)].text = @ \o t]
       ELSE Append(toks, TextToken(t))

\* DELIMITER_SPECS.filter((item) => config.delimiters.includes(item.kind))
ActiveDelimiters(cfg) == SelectSeq(DELIMITER_SPECS, LAMBDA item : item.kind \in cfg.delimiters)

\* config.excludeCode ? buildCodeSpanIndex(text).isInside : undefined
IsInsideCodeOf(cfg, spans) == IF cfg.excludeCode THEN CodeIndex(spans) ELSE NoCodeIndex

----------------------------------------------------------------------------
(* Segment builder *)

TextSegment(t) == [kind |-> "text", text |-> t]

\* `${MATH_IMAGE_NAME_PREFIX}-${imageCount}.png`
FileName(count) == MATH_IMAGE_NAME_PREFIX \o "-" \o ToString(count) \o ".png"

MathImageSegment(token, imageBuffer, count) ==
  [kind |-> "math-image", formulaText |-> token.raw, expression |-> token.expression,
   imageBuffer |-> imageBuffer, fileName |-> FileName(count)]

\* appendMathTextSegment assigning to the trailing text segment instead of extending it
appendMathTextSegmentAssign(segs, t) ==
  IF Len(t) = 0 THEN segs
  ELSE IF Len(segs) > 0 /\ segs[Len(segs)].kind = "text"
       THEN [segs EXCEPT ![Len(segs)].text = t]
       ELSE Append(segs, TextSegment(t))

appendMathTextSegment(segs, t) ==
  IF Len(t) = 0 THEN segs
  ELSE IF Len(segs) > 0 /\ segs[Len(segs)].kind = "text"
       THEN [segs EXCEPT ![Len(segs)].text = @ \o t]
       ELSE Append(segs, TextSegment(t))

\* the count limit compared with > instead of >=
CountLimitExceeded(count, cfg) == count > cfg.maxExpressionsPerReply

\* imageCount >= config.maxExpressionsPerReply
CountLimitReached(count, cfg) == count >= cfg.maxExpressionsPerReply

\* the length limit compared with >= instead of >
ExpressionAtLeastLimit(token, cfg) == Len(token.expression) >= cfg.maxCharsPerExpression

\* token.expression.length > config.maxCharsPerExpression
ExpressionTooLong(token, cfg) == Len(token.expression) > cfg.maxCharsPerExpression

\* tokens.some((token) => token.kind === "formula")
SomeFormula(toks) == \E i \in 1..Len(toks) : toks[i].kind = "formula"

\* segments.some((segment) => segment.kind === "math-image")
SomeMathImage(segs) == \E i \in 1..Len(segs) : segs[i].kind = "math-image"

Pending == [status |-> "pending", segments |-> <<>>, hasMathImages |-> FALSE]
Resolved(segs, has) == [status |-> "resolved", segments |-> segs, hasMathImages |-> has]
Rejected == [status |-> "rejected", segments |-> <<>>, hasMathImages |-> FALSE]

\* the plain-text result of lines 302-306, 311-315 and 354-358
PlainResult(t) == Resolved(<<TextSegment(t)>>, FALSE)

----------------------------------------------------------------------------
(* Inputs *)

\* A text is built of pieces: a marker, or a character that is part of no marker
\* ("a"), or a single "$". A backslash or bracket outside a marker scans like "a".
Pieces == { <<"$", "$">>, <<"\\", "[">>, <<"\\", "]">>, <<"a">>, <<"$">> }

PieceSeqs == UNION { [1..n -> Pieces] : n \in 0..MaxPieces }

RECURSIVE Flatten(_)
Flatten(ps) == IF Len(ps) = 0 THEN <<>> ELSE Head(ps) \o Flatten(Tail(ps))

AllMissing ==
  [enabled |-> Missing, delimiters |-> Missing, excludeCode |-> Missing,
   maxExpressionsPerReply |-> Missing, maxCharsPerExpression |-> Missing]

AllInvalid ==
  [enabled |-> Missing, delimiters |-> Given({"inline"}), excludeCode |-> Missing,
   maxExpressionsPerReply |-> Given(0), maxCharsPerExpression |-> Given(-1)]

Disabled == [AllMissing EXCEPT !.enabled = Given(FALSE)]

ExplicitInputs ==
  { [enabled |-> Given(TRUE), delimiters |-> Given(d), excludeCode |-> Given(x),
     maxExpressionsPerReply |-> Given(k), maxCharsPerExpression |-> Given(c)] :
       d \in (SUBSET {"double-dollar", "bracket"}) \ {{}}, x \in BOOLEAN,
       k \in 1..MaxK, c \in 1..MaxCharsLimit }

\* every configuration: nothing given, nothing valid, the feature off, and
\* every explicit choice of delimiters, excludeCode and the two limits
ConfigInputs == {AllMissing, AllInvalid, Disabled} \cup ExplicitInputs

\* the configurations that differ for the scanner: delimiters and excludeCode,
\* the limits left at their defaults
ScanInputs ==
  { [AllMissing EXCEPT !.delimiters = Given(d), !.excludeCode = Given(x)] :
      d \in (SUBSET {"double-dollar", "bracket"}) \ {{}}, x \in BOOLEAN }

\* the offsets of the pieces lo+1..hi of a text (none when lo = hi)
SpanOffsets(ps, lo, hi) ==
  LET from == Len(Flatten(SubSeq(ps, 1, lo)))
      to == Len(Flatten(SubSeq(ps, 1, hi)))
  IN from..(to - 1)

\* the state at the call of buildDiscordMathSegments(text, input) when the
\* code-span index of the text reports the offsets spans as inside code
InitCall(t, input, spans) ==
  /\ text = t
  /\ config = resolveDiscordMathImageConfig(input)
  /\ codeSpans = spans
  /\ pc = "start"
  /\ cursor = 0
  /\ tokens = <<>>
  /\ tokIdx = 0
  /\ segments = <<>>
  /\ imageCount = 0
  /\ renderCalls = <<>>
  /\ logged = 0
  /\ outcome = Pending

\* every text under every configuration; the text holds no code span
Init ==
  \E ps \in PieceSeqs, input \in ConfigInputs : InitCall(Flatten(ps), input, {})

\* every text under the scanner's configurations; the code-span index of the
\* text reports one span, any run of pieces of the text, or none. The index is
\* built only when excludeCode is set.
ScanInit ==
  \E ps \in PieceSeqs, input \in ScanInputs :
    \E lo \in 0..Len(ps) : \E hi \in lo..Len(ps) :
      /\ ValueOf(input.excludeCode) \/ lo = hi
      /\ InitCall(Flatten(ps), input, SpanOffsets(ps, lo, hi))

----------------------------------------------------------------------------
(* Actions *)

\* buildDiscordMathSegments up to the first iteration of the tokenizer's loop
Call ==
  /\ pc = "start"
  /\ IF ~config.enabled \/ Len(text) = 0
     THEN /\ outcome' = PlainResult(text)
          /\ pc' = "done"
          /\ UNCHANGED <<tokens, cursor>>
     ELSE /\ IF Len(ActiveDelimiters(config)) = 0
             THEN tokens' = <<TextToken(text)>> /\ pc' = "tokenized"
             ELSE tokens' = <<>> /\ pc' = "tokenize"
          /\ cursor' = 0
          /\ UNCHANGED outcome
  /\ UNCHANGED <<text, config, codeSpans, tokIdx, segments, imageCount, renderCalls, logged>>

\* one iteration of the while loop of tokenizeMathText scanning on behind an
\* unmatched opening marker instead of stopping
TokenizeStepRescan ==
  /\ pc = "tokenize"
  /\ cursor < Len(text)
  /\ \E activeDelimiters \in {ActiveDelimiters(config)},
        isInsideCode \in {IsInsideCodeOf(config, codeSpans)} :
     \E opening \in {findNextOpening(text, cursor, activeDelimiters, isInsideCode)} :
       IF IsNone(opening)
       THEN /\ tokens' = appendTextToken(tokens, SliceFrom(text, cursor))
            /\ pc' = "tokenized"
            /\ UNCHANGED cursor
       ELSE \E withGap \in {IF opening.index > cursor
                            THEN appendTextToken(tokens, Slice(text, cursor, opening.index))
                            ELSE tokens},
               expressionStart \in {opening.index + Len(opening.delimiter.open)} :
            \E closeIndex \in {findClosingIndex(text, expressionStart, opening.delimiter,
                                                isInsideCode)} :
              IF closeIndex < 0
              THEN /\ tokens' = appendTextToken(withGap, Slice(text, opening.index, expressionStart))
                   /\ cursor' = expressionStart
                   /\ pc' = IF expressionStart < Len(text) THEN "tokenize" ELSE "tokenized"
              ELSE /\ tokens' = Append(withGap,
                        FormulaToken(Slice(text, opening.index,
                                           closeIndex + Len(opening.delimiter.close)),
                                     Slice(text, expressionStart, closeIndex)))
                   /\ cursor' = closeIndex + Len(opening.delimiter.close)
                   /\ pc' = IF cursor' < Len(text) THEN "tokenize" ELSE "tokenized"
  /\ UNCHANGED <<text, config, codeSpans, tokIdx, segments, imageCount, renderCalls,
                 logged, outcome>>

\* one iteration of the while loop of tokenizeMathText: it ends in a break
\* (pc tokenized), or moves the cursor and tests the loop condition again
TokenizeStep ==
  /\ pc = "tokenize"
  /\ cursor < Len(text)
  /\ \E activeDelimiters \in {ActiveDelimiters(config)},
        isInsideCode \in {IsInsideCodeOf(config, codeSpans)} :
     \E opening \in {findNextOpening(text, cursor, activeDelimiters, isInsideCode)} :
       IF IsNone(opening)
       THEN /\ tokens' = appendTextToken(tokens, SliceFrom(text, cursor))
            /\ pc' = "tokenized"
            /\ UNCHANGED cursor
       ELSE \E withGap \in {IF opening.index > cursor
                            THEN appendTextToken(tokens, Slice(text, cursor, opening.index))
                            ELSE tokens},
               expressionStart \in {opening.index + Len(opening.delimiter.open)} :
            \E closeIndex \in {findClosingIndex(text, expressionStart, opening.delimiter,
                                                isInsideCode)} :
              IF closeIndex < 0
              THEN /\ tokens' = appendTextToken(withGap, SliceFrom(text, opening.index))
                   /\ pc' = "tokenized"
                   /\ UNCHANGED cursor
              ELSE /\ tokens' = Append(withGap,
                        FormulaToken(Slice(text, opening.index,
                                           closeIndex + Len(opening.delimiter.close)),
                                     Slice(text, expressionStart, closeIndex)))
                   /\ cursor' = closeIndex + Len(opening.delimiter.close)
                   /\ pc' = IF cursor' < Len(text) THEN "tokenize" ELSE "tokenized"
  /\ UNCHANGED <<text, config, codeSpans, tokIdx, segments, imageCount, renderCalls,
                 logged, outcome>>

\* the return of tokenizeMathText and lines 310-320 of buildDiscordMathSegments
TokenizeReturn ==
  /\ pc = "tokenized"
  /\ LET returned == IF Len(tokens) = 0 THEN <<TextToken(text)>> ELSE tokens
     IN /\ tokens' = returned
        /\ IF ~SomeFormula(returned)
           THEN /\ outcome' = PlainResult(text)
                /\ pc' = "done"
                /\ UNCHANGED <<tokIdx, segments, imageCount>>
           ELSE /\ segments' = <<>>
                /\ imageCount' = 0
                /\ tokIdx' = 1
                /\ pc' = "build"
                /\ UNCHANGED outcome
  /\ UNCHANGED <<text, config, codeSpans, cursor, renderCalls, logged>>

\* the for loop issuing the render call without awaiting it
BuildStepNoAwait ==
  /\ pc = "build"
  /\ tokIdx <= Len(tokens)
  /\ LET token == tokens[tokIdx]
     IN IF token.kind = "text"
        THEN /\ segments' = appendMathTextSegment(segments, token.text)
             /\ UNCHANGED renderCalls
        ELSE IF CountLimitReached(imageCount, config) \/ ExpressionTooLong(token, config)
        THEN /\ segments' = appendMathTextSegment(segments, token.raw)
             /\ UNCHANGED renderCalls
        ELSE /\ renderCalls' = Append(renderCalls,
                  [token |-> tokIdx, expression |-> token.expression,
                   maxImageWidthPx |-> config.maxImageWidthPx, status |-> "pending"])
             /\ UNCHANGED segments
  /\ tokIdx' = tokIdx + 1
  /\ UNCHANGED <<text, config, codeSpans, pc, cursor, tokens, imageCount, logged, outcome>>

\* one iteration of the for loop, up to its continue or its await
BuildStep ==
  /\ pc = "build"
  /\ tokIdx <= Len(tokens)
  /\ LET token == tokens[tokIdx]
     IN IF token.kind = "text"
        THEN /\ segments' = appendMathTextSegment(segments, token.text)
             /\ tokIdx' = tokIdx + 1
             /\ UNCHANGED <<pc, renderCalls>>
        ELSE IF CountLimitReached(imageCount, config)
        THEN /\ segments' = appendMathTextSegment(segments, token.raw)
             /\ tokIdx' = tokIdx + 1
             /\ UNCHANGED <<pc, renderCalls>>
        ELSE IF ExpressionTooLong(token, config)
        THEN /\ segments' = appendMathTextSegment(segments, token.raw)
             /\ tokIdx' = tokIdx + 1
             /\ UNCHANGED <<pc, renderCalls>>
        ELSE /\ renderCalls' = Append(renderCalls,
                  [token |-> tokIdx, expression |-> token.expression,
                   maxImageWidthPx |-> config.maxImageWidthPx, status |-> "pending"])
             /\ pc' = "await"
             /\ UNCHANGED <<segments, tokIdx>>
  /\ UNCHANGED <<text, config, codeSpans, cursor, tokens, imageCount, logged, outcome>>

\* the image named by the ordinal of the render call instead of imageCount
RenderResolveNamedByCall ==
  /\ pc = "await"
  /\ renderCalls' = [renderCalls EXCEPT ![Len(renderCalls)].status = "resolved"]
  /\ imageCount' = imageCount + 1
  /\ segments' = Append(segments, MathImageSegment(tokens[tokIdx], "png", Len(renderCalls)))
  /\ tokIdx' = tokIdx + 1
  /\ pc' = "build"
  /\ UNCHANGED <<text, config, codeSpans, cursor, tokens, logged, outcome>>

\* the awaited render call resolves with an image buffer
RenderResolve ==
  /\ pc = "await"
  /\ renderCalls' = [renderCalls EXCEPT ![Len(renderCalls)].status = "resolved"]
  /\ imageCount' = imageCount + 1
  /\ segments' = Append(segments, MathImageSegment(tokens[tokIdx], "png", imageCount + 1))
  /\ tokIdx' = tokIdx + 1
  /\ pc' = "build"
  /\ UNCHANGED <<text, config, codeSpans, cursor, tokens, logged, outcome>>

\* the render call awaited outside any try block: its rejection rejects the call
RenderRejectPropagates ==
  /\ pc = "await"
  /\ renderCalls' = [renderCalls EXCEPT ![Len(renderCalls)].status = "rejected"]
  /\ outcome' = Rejected
  /\ pc' = "done"
  /\ UNCHANGED <<text, config, codeSpans, cursor, tokens, tokIdx, segments, imageCount, logged>>

\* the catch block counting the failed render as an image
RenderRejectCounted ==
  /\ pc = "await"
  /\ renderCalls' = [renderCalls EXCEPT ![Len(renderCalls)].status = "rejected"]
  /\ segments' = appendMathTextSegment(segments, tokens[tokIdx].raw)
  /\ imageCount' = imageCount + 1
  /\ logged' = logged + 1
  /\ tokIdx' = tokIdx + 1
  /\ pc' = "build"
  /\ UNCHANGED <<text, config, codeSpans, cursor, tokens, outcome>>

\* the awaited render call rejects: the catch block
RenderReject ==
  /\ pc = "await"
  /\ renderCalls' = [renderCalls EXCEPT ![Len(renderCalls)].status = "rejected"]
  /\ segments' = appendMathTextSegment(segments, tokens[tokIdx].raw)
  /\ logged' = logged + 1
  /\ tokIdx' = tokIdx + 1
  /\ pc' = "build"
  /\ UNCHANGED <<text, config, codeSpans, cursor, tokens, imageCount, outcome>>

\* the end of the for loop and the return of buildDiscordMathSegments
BuildReturn ==
  /\ pc = "build"
  /\ tokIdx > Len(tokens)
  /\ outcome' = IF Len(segments) = 0 THEN PlainResult(text)
                ELSE Resolved(segments, SomeMathImage(segments))
  /\ pc' = "done"
  /\ UNCHANGED <<text, config, codeSpans, cursor, tokens, tokIdx, segments, imageCount,
                 renderCalls, logged>>

Next ==
  \/ Call
  \/ TokenizeStep
  \/ TokenizeReturn
  \/ BuildStep
  \/ RenderResolve
  \/ RenderReject
  \/ BuildReturn

Spec == Init /\ [][Next]_vars

\* the scanner and tokenizer under code spans
ScanSpec == ScanInit /\ [][Next]_vars

\* the synchronous steps of the call run to completion, and every render call completes
FairSpec == Spec /\ WF_vars(Next)

----------------------------------------------------------------------------
(* Vocabulary of the properties *)

RECURSIVE Join(_)
Join(strings) == IF Len(strings) = 0 THEN <<>> ELSE Head(strings) \o Join(Tail(strings))

\* the text a token or a segment stands for
TokenSource(token) == IF token.kind = "text" THEN token.text ELSE token.raw
SegmentSource(segment) == IF segment.kind = "text" THEN segment.text ELSE segment.formulaText

TokenSources(toks) == [i \in 1..Len(toks) |-> TokenSource(toks[i])]
SegmentSources(segs) == [i \in 1..Len(segs) |-> SegmentSource(segs[i])]

\* offset in the input of the i-th token (segment), and the offset after it
TokenStart(toks, i) == Len(Join(SubSeq(TokenSources(toks), 1, i - 1)))
TokenEnd(toks, i) == TokenStart(toks, i) + Len(TokenSource(toks[i]))
SegmentStart(segs, i) == Len(Join(SubSeq(SegmentSources(segs), 1, i - 1)))
SegmentEnd(segs, i) == SegmentStart(segs, i) + Len(SegmentSource(segs[i]))

FormulaIndexes(toks) == {i \in 1..Len(toks) : toks[i].kind = "formula"}
ImageIndexes(segs) == {i \in 1..Len(segs) : segs[i].kind = "math-image"}
FormulaTokens(toks) == SelectSeq(toks, LAMBDA token : token.kind = "formula")
MathImages(segs) == SelectSeq(segs, LAMBDA segment : segment.kind = "math-image")

\* the token toks[i] lies, verbatim, inside one text segment of segs
VerbatimAsText(toks, i, segs) ==
  \E j \in 1..Len(segs) :
    /\ segs[j].kind = "text"
    /\ SegmentStart(segs, j) <= TokenStart(toks, i)
    /\ TokenEnd(toks, i) <= SegmentEnd(segs, j)
    /\ SubSeq(segs[j].text, TokenStart(toks, i) - SegmentStart(segs, j) + 1,
              TokenEnd(toks, i) - SegmentStart(segs, j)) = toks[i].raw

\* a math-image segment of segs stands at the place of the token toks[i]
ImageAt(toks, i, segs) ==
  \E j \in ImageIndexes(segs) :
    /\ SegmentStart(segs, j) = TokenStart(toks, i)
    /\ segs[j].formulaText = toks[i].raw

\* the tokens the for loop has dealt with
Processed == IF pc = "done" THEN 1..Len(tokens) ELSE 1..(tokIdx - 1)

CallIndexes == 1..Len(renderCalls)
CallsFor(i) == {c \in CallIndexes : renderCalls[c].token = i}
ResolvedCalls == {c \in CallIndexes : renderCalls[c].status = "resolved"}
RejectedCalls == {c \in CallIndexes : renderCalls[c].status = "rejected"}
PendingCalls == {c \in CallIndexes : renderCalls[c].status = "pending"}

\* images rendered when the for loop reached the token toks[i]
RenderedBefore(i) == Cardinality({c \in ResolvedCalls : renderCalls[c].token < i})

----------------------------------------------------------------------------
(* C1 *)

\* C1: the tokens, concatenated in order (text or raw), are the input text, and
\* the segments of the result, concatenated in order (text or formulaText), are
\* the input text, whatever the configuration and whichever renders failed.
Faithfulness ==
  /\ pc \in {"tokenized", "build", "await"} => Join(TokenSources(tokens)) = text
  /\ pc \in {"build", "await"} =>
       Join(SegmentSources(segments)) = Join(SubSeq(TokenSources(tokens), 1, tokIdx - 1))
  /\ pc = "done" =>
       /\ outcome.status = "resolved"
       /\ Join(SegmentSources(outcome.segments)) = text

\* a result of two formulas, one rendered as an image and one whose render failed
FaithfulnessWitness ==
  /\ pc = "done"
  /\ ResolvedCalls # {}
  /\ RejectedCalls # {}
  /\ Len(outcome.segments) >= 2
  /\ Join(SegmentSources(outcome.segments)) = text

----------------------------------------------------------------------------
(* C2 *)

MinOf(a, b) == IF a <= b THEN a ELSE b

\* C2: when every render succeeds and the n formulas are all within
\* maxCharsPerExpression, the result holds exactly min(n, k) math-image segments,
\* for the first min(n, k) formulas in source order, and each later formula is
\* verbatim inside a text segment.
CountLimit ==
  ( /\ pc = "done"
    /\ config.enabled
    /\ RejectedCalls = {}
    /\ \A i \in FormulaIndexes(tokens) : ~(Len(tokens[i].expression) > config.maxCharsPerExpression) )
  =>
  LET formulas == FormulaIndexes(tokens)
      n == Cardinality(formulas)
      m == MinOf(n, config.maxExpressionsPerReply)
      rank(i) == Cardinality({j \in formulas : j <= i})
      images == MathImages(outcome.segments)
  IN /\ Len(images) = m
     /\ \A i \in formulas :
          IF rank(i) <= m
          THEN /\ ImageAt(tokens, i, outcome.segments)
               /\ images[rank(i)].formulaText = tokens[i].raw
               /\ images[rank(i)].expression = tokens[i].expression
          ELSE /\ VerbatimAsText(tokens, i, outcome.segments)
               /\ ~ImageAt(tokens, i, outcome.segments)

\* two formulas, a limit of one, both within the length limit, the one render succeeded
CountLimitWitness ==
  /\ pc = "done"
  /\ config.maxExpressionsPerReply = 1
  /\ Cardinality(FormulaIndexes(tokens)) = 2
  /\ RejectedCalls = {}
  /\ Cardinality(ResolvedCalls) = 1
  /\ \A i \in FormulaIndexes(tokens) : Len(tokens[i].expression) <= config.maxCharsPerExpression
  /\ Len(MathImages(outcome.segments)) = 1

----------------------------------------------------------------------------
(* C3 *)

\* C3: a formula whose render was rejected has no math-image segment, its raw
\* text stands in its place as text, imageCount counts the resolved renders only
\* (so a later formula within the limits is still attempted while fewer than
\* maxExpressionsPerReply images exist), and the call itself does not reject.
FallbackOnFailure ==
  /\ \A c \in RejectedCalls :
       /\ VerbatimAsText(tokens, renderCalls[c].token, segments)
       /\ ~ImageAt(tokens, renderCalls[c].token, segments)
  /\ imageCount = Cardinality(ResolvedCalls)
  /\ \A i \in FormulaIndexes(tokens) \cap Processed :
       ( /\ Len(tokens[i].expression) <= config.maxCharsPerExpression
         /\ RenderedBefore(i) < config.maxExpressionsPerReply ) => CallsFor(i) # {}
  /\ outcome.status # "rejected"
  /\ pc = "done" /\ RejectedCalls # {} =>
       /\ outcome.status = "resolved"
       /\ \A c \in RejectedCalls :
            /\ VerbatimAsText(tokens, renderCalls[c].token, outcome.segments)
            /\ ~ImageAt(tokens, renderCalls[c].token, outcome.segments)
  /\ logged = Cardinality(RejectedCalls)

\* with a limit of one image, the first render was rejected and the second formula was rendered
FallbackOnFailureWitness ==
  /\ pc = "done"
  /\ config.maxExpressionsPerReply = 1
  /\ Len(renderCalls) = 2
  /\ renderCalls[1].status = "rejected"
  /\ renderCalls[2].status = "resolved"
  /\ outcome.hasMathImages

----------------------------------------------------------------------------
(* C4 *)

\* the delimiter a formula's raw text opens with
DelimiterOfRaw(raw) ==
  CHOOSE d \in {DELIMITER_SPECS[k] : k \in 1..Len(DELIMITER_SPECS)} : MatchAt(raw, d.open, 0)

\* the open marker of d stands at offset p, outside code
ValidOpening(d, p) ==
  MatchAt(text, d.open, p) /\ OutsideCode(IsInsideCodeOf(config, codeSpans), p)

\* the close marker of d stands at offset q, outside code
ValidClosing(d, q) ==
  MatchAt(text, d.close, q) /\ OutsideCode(IsInsideCodeOf(config, codeSpans), q)

ActiveSet == {DELIMITER_SPECS[k] : k \in {j \in 1..Len(DELIMITER_SPECS) :
                                           DELIMITER_SPECS[j].kind \in config.delimiters}}

\* C4: with excludeCode on, the opening marker and the closing marker of every
\* formula token, and of every math-image segment, stand outside every code
\* span, whichever the delimiter kind; and while tokenizing, an opening marker
\* outside code at or after the cursor is found although markers inside code
\* come before it.
CodeSpanExclusion ==
  (config.enabled /\ config.excludeCode) =>
    /\ \A i \in FormulaIndexes(tokens) :
         LET d == DelimiterOfRaw(tokens[i].raw)
         IN /\ TokenStart(tokens, i) \notin codeSpans
            /\ (TokenEnd(tokens, i) - Len(d.close)) \notin codeSpans
            /\ MatchAt(text, d.open, TokenStart(tokens, i))
            /\ MatchAt(text, d.close, TokenEnd(tokens, i) - Len(d.close))
    /\ \A j \in ImageIndexes(segments) :
         LET d == DelimiterOfRaw(segments[j].formulaText)
         IN /\ SegmentStart(segments, j) \notin codeSpans
            /\ (SegmentEnd(segments, j) - Len(d.close)) \notin codeSpans
    /\ pc = "tokenize" =>
         \A d \in ActiveSet : \A p \in cursor..(Len(text) - 1) :
           ValidOpening(d, p) =>
             LET o == findNextOpening(text, cursor, ActiveDelimiters(config),
                                      IsInsideCodeOf(config, codeSpans))
             IN ~IsNone(o) /\ o.index <= p

\* a delimiter pair lies wholly in a code span, and a formula token was made of a later pair
CodeSpanExclusionWitness ==
  /\ config.enabled /\ config.excludeCode
  /\ \E d \in ActiveSet : \E p \in 0..(Len(text) - 1) : \E q \in (p + Len(d.open))..(Len(text) - 1) :
       /\ MatchAt(text, d.open, p)
       /\ MatchAt(text, d.close, q)
       /\ p..(q + Len(d.close) - 1) \subseteq codeSpans
       /\ \E i \in FormulaIndexes(tokens) :
            /\ TokenStart(tokens, i) > q
            /\ DelimiterOfRaw(tokens[i].raw) = d
  /\ ImageIndexes(segments) # {}

----------------------------------------------------------------------------
(* C5 *)

\* C5: a render call is made only with the feature enabled, a non-empty text,
\* fewer than maxExpressionsPerReply images rendered so far and an expression of
\* at most maxCharsPerExpression characters; an expression of exactly that
\* length is rendered; a formula the loop passed without a render call is
\* verbatim inside a text segment; and with the feature off or an empty text the
\* result is the input as one text segment and no call is made.
RenderGuard ==
  /\ \A c \in CallIndexes :
       LET i == renderCalls[c].token
       IN /\ config.enabled
          /\ Len(text) > 0
          /\ tokens[i].kind = "formula"
          /\ renderCalls[c].expression = tokens[i].expression
          /\ Len(renderCalls[c].expression) <= config.maxCharsPerExpression
          /\ RenderedBefore(i) < config.maxExpressionsPerReply
          /\ Cardinality(CallsFor(i)) = 1
  /\ \A i \in FormulaIndexes(tokens) \cap Processed :
       /\ ( /\ Len(tokens[i].expression) = config.maxCharsPerExpression
            /\ RenderedBefore(i) < config.maxExpressionsPerReply ) => CallsFor(i) # {}
       /\ CallsFor(i) = {} =>
            /\ \/ Len(tokens[i].expression) > config.maxCharsPerExpression
               \/ RenderedBefore(i) >= config.maxExpressionsPerReply
            /\ VerbatimAsText(tokens, i, IF pc = "done" THEN outcome.segments ELSE segments)
  /\ (pc = "done" /\ (~config.enabled \/ Len(text) = 0)) =>
       /\ renderCalls = <<>>
       /\ outcome = Resolved(<<TextSegment(text)>>, FALSE)

\* an expression of exactly maxCharsPerExpression characters was passed to the renderer
RenderGuardWitness ==
  /\ pc = "done"
  /\ \E c \in CallIndexes :
       /\ Len(renderCalls[c].expression) = config.maxCharsPerExpression
       /\ renderCalls[c].status = "resolved"
  /\ outcome.hasMathImages

----------------------------------------------------------------------------
(* C6 *)

\* C6: at most one render call is pending, only the last call issued can be
\* pending (a call is issued after every earlier one has completed), a call is
\* pending exactly while the loop awaits it, and the calls are issued in the
\* source order of their formula tokens.
SequentialRendering ==
  /\ Cardinality(PendingCalls) <= 1
  /\ \A c \in PendingCalls : c = Len(renderCalls)
  /\ (PendingCalls # {}) <=> (pc = "await")
  /\ \A c1, c2 \in CallIndexes : c1 < c2 => renderCalls[c1].token < renderCalls[c2].token
  /\ pc = "await" => renderCalls[Len(renderCalls)].token = tokIdx

\* the second render call is in flight after the first one completed
SequentialRenderingWitness ==
  /\ pc = "await"
  /\ Len(renderCalls) = 2
  /\ renderCalls[1].status # "pending"
  /\ renderCalls[2].status = "pending"

----------------------------------------------------------------------------
(* C7 *)

\* C7: when every step that can be taken is eventually taken and every render
\* call completes, the call ends resolved with a result; it never rejects; and
\* an iteration of the tokenizer's loop either ends the loop or strictly
\* advances the cursor.
AlwaysResolves ==
  /\ <>(pc = "done" /\ outcome.status = "resolved")
  /\ [](outcome.status # "rejected")
  /\ [][pc = "tokenize" => (cursor' > cursor \/ (pc' = "tokenized" /\ cursor' = cursor))]_vars

\* a call that ended after two passes of the tokenizer's loop and a rejected render
AlwaysResolvesWitness ==
  /\ pc = "done"
  /\ outcome.status = "resolved"
  /\ Cardinality(FormulaIndexes(tokens)) >= 2
  /\ cursor = Len(text)
  /\ RejectedCalls # {}

----------------------------------------------------------------------------
(* C8 *)

\* the file name of the j-th image, written out
OrdinalName(j) ==
  CASE j = 1 -> "equation-1.png"
    [] j = 2 -> "equation-2.png"
    [] j = 3 -> "equation-3.png"
    [] OTHER -> "equation-" \o ToString(j) \o ".png"

\* C8: the j-th math-image segment, in order of appearance, is named
\* equation-j.png, in the segments built so far and in the result, so the names
\* of one call are pairwise distinct and consecutive from 1, also after a failed
\* or skipped formula.
OrdinalFileNames ==
  \A segs \in {segments, outcome.segments} :
    LET images == MathImages(segs)
    IN /\ \A j \in 1..Len(images) : images[j].fileName = OrdinalName(j)
       /\ \A j1, j2 \in 1..Len(images) : j1 # j2 => images[j1].fileName # images[j2].fileName

\* the first formula failed to render and the second one is the image equation-1.png
OrdinalFileNamesWitness ==
  /\ pc = "done"
  /\ Len(renderCalls) = 2
  /\ renderCalls[1].status = "rejected"
  /\ Len(MathImages(outcome.segments)) = 1
  /\ MathImages(outcome.segments)[1].fileName = "equation-1.png"

----------------------------------------------------------------------------
(* C9 *)

Reverse(seq) == [i \in 1..Len(seq) |-> seq[Len(seq) + 1 - i]]

\* the offsets where the open marker of an active delimiter stands outside code
ValidOpenings ==
  LET active == ActiveSet
  IN {p \in 0..(Len(text) - 1) : \E d \in active : ValidOpening(d, p)}

\* the end of the last formula token before toks[i], or 0
PreviousFormulaEnd(toks, i) ==
  LET before == {j \in FormulaIndexes(toks) : j < i}
  IN IF before = {} THEN 0
     ELSE TokenEnd(toks, CHOOSE j \in before : \A k \in before : k <= j)

\* C9: for every fromIndex, and for the active delimiters in either order,
\* findNextOpening returns the least offset >= fromIndex at which the open
\* marker of an active delimiter stands outside code, with the delimiter whose
\* marker stands there; it returns none exactly when there is no such offset.
\* And in the tokenizer's result every formula token opens at the least such
\* offset at or after the end of the formula token before it.
LeftmostWins ==
  /\ pc = "start" =>
       LET valid == ValidOpenings
           active == ActiveSet
           isInsideCode == IsInsideCodeOf(config, codeSpans)
           orders == {ActiveDelimiters(config), Reverse(ActiveDelimiters(config))}
       IN \A fromIndex \in 0..Len(text) :
            LET validFrom == {p \in valid : p >= fromIndex}
            IN \A delimiters \in orders :
                 LET o == findNextOpening(text, fromIndex, delimiters, isInsideCode)
                 IN IF validFrom = {}
                    THEN IsNone(o)
                    ELSE /\ ~IsNone(o)
                         /\ o.index = Min(validFrom)
                         /\ o.delimiter \in active
                         /\ ValidOpening(o.delimiter, o.index)
  /\ pc = "tokenized" =>
       LET valid == ValidOpenings
       IN \A i \in FormulaIndexes(tokens) :
            LET from == PreviousFormulaEnd(tokens, i)
                validFrom == {p \in valid : p >= from}
            IN /\ validFrom # {}
               /\ TokenStart(tokens, i) = Min(validFrom)
               /\ DelimiterOfRaw(tokens[i].raw) \in ActiveSet

\* both kinds are active; a "$$" inside code comes first, then a valid "\[", then
\* a valid "$$": the tokenizer has returned a formula token that opens at the
\* "\[", of the delimiter listed second
LeftmostWinsWitness ==
  /\ pc = "tokenized"
  /\ config.enabled /\ config.excludeCode
  /\ Len(ActiveDelimiters(config)) = 2
  /\ \E i \in FormulaIndexes(tokens) :
       LET start == TokenStart(tokens, i)
       IN /\ DelimiterOfRaw(tokens[i].raw).kind = "bracket"
          /\ \E p \in 0..(start - 1) : MatchAt(text, <<"$", "$">>, p) /\ p \in codeSpans
          /\ \E p \in (start + 1)..(Len(text) - 1) :
               MatchAt(text, <<"$", "$">>, p) /\ p \notin codeSpans

----------------------------------------------------------------------------
(* C10 *)

\* the opening the tokenizer's loop finds at the cursor
OpeningAtCursor ==
  findNextOpening(text, cursor, ActiveDelimiters(config), IsInsideCodeOf(config, codeSpans))

\* no close marker of d stands outside code at or after offset from
NoValidClosing(d, from) == ~\E q \in from..(Len(text) - 1) : ValidClosing(d, q)

\* the loop is at an opening marker that has no valid close marker behind it
AtUnmatchedOpening ==
  /\ pc = "tokenize"
  /\ ~IsNone(OpeningAtCursor)
  /\ NoValidClosing(OpeningAtCursor.delimiter,
                    OpeningAtCursor.index + Len(OpeningAtCursor.delimiter.open))

\* a pair of an active delimiter, both markers outside code, opens behind offset p
CompletePairAfter(p) ==
  \E d \in ActiveSet : \E a \in (p + 1)..(Len(text) - 1) :
    /\ ValidOpening(d, a)
    /\ ~NoValidClosing(d, a + Len(d.open))

\* C10: when the leftmost valid opening at or after the cursor has no valid
\* close marker of its kind behind it, the iteration ends the loop: the text
\* from that opening to the end of the input becomes literal text (the tail of
\* the last token), no formula token is added, also when a complete pair occurs
\* later, and the formula tokens made before are kept.
UnmatchedOpeningConsumesRest ==
  [][ AtUnmatchedOpening =>
        /\ pc' = "tokenized"
        /\ FormulaTokens(tokens') = FormulaTokens(tokens)
        /\ Join(TokenSources(tokens')) = text
        /\ tokens'[Len(tokens')].kind = "text"
        /\ TokenStart(tokens', Len(tokens')) <= OpeningAtCursor.index
        /\ \A i \in FormulaIndexes(tokens') : TokenEnd(tokens', i) <= OpeningAtCursor.index
    ]_vars

\* the loop stopped at an unmatched opening marker although a complete pair
\* follows it: the whole rest is one text token, and no formula token exists
UnmatchedOpeningWitness ==
  /\ pc = "tokenized"
  /\ cursor < Len(text)
  /\ ~IsNone(OpeningAtCursor)
  /\ NoValidClosing(OpeningAtCursor.delimiter,
                    OpeningAtCursor.index + Len(OpeningAtCursor.delimiter.open))
  /\ CompletePairAfter(OpeningAtCursor.index)
  /\ FormulaIndexes(tokens) = {}
  /\ tokens[Len(tokens)].kind = "text"
  /\ tokens[Len(tokens)].text = text

====
